---------------------------- MODULE Spec2Model ----------------------------
(***************************************************************************)
(* The subscriber HTTP service (app.js, kept as src/unnamed/part_000) and  *)
(* the seeding script (src/src/createDatabase.js), both working on the one *)
(* "subscribers" collection of the document store.                         *)
(*                                                                         *)
(* A handler has a single suspension point, its one awaited store call, so *)
(* a request is one atomic step placed at that call.  The seeding script   *)
(* has three awaits and so three steps, between which requests may run.    *)
(* A store call may fail (StoreError); whether it does is an input of the  *)
(* step.                                                                   *)
(***************************************************************************)
EXTENDS Integers, Sequences, FiniteSets

\* ------------------------------------------------------------- bounds
\* How many identifiers the store hands out in one behaviour.
MaxIds == 3

\* ------------------------------------------------------------- values
\* A JSON body with no fields (express.json() gives {} for it).
EmptyBody == [f \in {} |-> ""]
\* The bodies of POST /subscribers: both fields given, one or both omitted,
\* one given as the empty text.
Bodies ==
    {[name |-> "a", subscribedChannel |-> "c1"],
     [name |-> "b", subscribedChannel |-> "c2"],
     [name |-> "a"], [subscribedChannel |-> "c1"], EmptyBody,
     [name |-> "", subscribedChannel |-> "c1"],
     [name |-> "a", subscribedChannel |-> ""]}

\* The :id path parameter: a well-formed identifier (wf) numbered n, or a
\* string the store cannot cast to an identifier.
MalformedId == [wf |-> FALSE, n |-> 0]
IdParams == {[wf |-> TRUE, n |-> i] : i \in 1..MaxIds} \cup {MalformedId}

\* The seed datasets (./data): sequences of {name, subscribedChannel}, here
\* one record, two different records, and the same record twice.
SeedRecord(n, c) == [name |-> n, subscribedChannel |-> c]
SeedDatasets ==
    {<<SeedRecord("a", "c1")>>,
     <<SeedRecord("a", "c1"), SeedRecord("b", "c2")>>,
     <<SeedRecord("a", "c1"), SeedRecord("a", "c1")>>}

\* The text of a store failure, as err.message carries it.
StoreErrorMessage == "StoreError"
RequiredMessage == "Name and subscribedChannel are required."
NotFoundMessage == "Subscriber not found"

VARIABLES
    subscribers,  \* the collection, in the store's natural (insertion) order
    nextId,       \* the next identifier the store hands out
    data,         \* the seed dataset the script was written with
    seedPc,       \* where the seeding script is
    seedTrace,    \* the store steps the current run has finished, in order
    seedDirty,    \* a POST returned 201 since the current run was launched
    last,         \* the step just taken: request, store calls, responses
    posted,       \* per POST that returned 201 since the latest deleteMany: the
                  \* id returned and the fields sent, as destructured
    clobbered,    \* the ids POST returned with 201 that a deleteMany then removed
    lastList      \* the first result of GET /subscribers since the latest write

vars == <<subscribers, nextId, data, seedPc, seedTrace, seedDirty,
          last, posted, clobbered, lastList>>

\* The seeding script is between its launch and its disconnect.
Seeding == seedPc \in {"started", "cleared", "inserted"}

\* ------------------------------------------------- the store's operations
\* new Subscriber({name, subscribedChannel}): the document with its identifier.
NewSubscriber(id, n, c) == [_id |-> id, name |-> n, subscribedChannel |-> c]

\* Subscriber.find(): every document.
Find(coll) == coll

\* A select("name subscribedChannel"), which leaves _id in.
SelectKeepsId(docs) == docs

\* .select("name subscribedChannel -_id"): the named fields, without _id.
Select(docs) ==
    [i \in 1..Len(docs) |->
        [name |-> docs[i].name, subscribedChannel |-> docs[i].subscribedChannel]]

\* Subscriber.findById(id): the documents with that identifier (none: null).
FindById(coll, id) == SelectSeq(coll, LAMBDA d : d._id = id.n)

\* newSubscriber.save(): the document joins the collection.
Save(coll, doc) == Append(coll, doc)

\* A deleteMany whose filter matches no document.
DeleteManyNothing(coll) == coll

\* subscriberModel.deleteMany({}): the empty filter matches every document.
DeleteMany(coll) == SelectSeq(coll, LAMBDA d : FALSE)

\* subscriberModel.insertMany(records): each record joins the collection with
\* an identifier of its own, first the one numbered `first`.
InsertMany(coll, records, first) ==
    coll \o [i \in 1..Len(records) |->
                NewSubscriber(first + i - 1, records[i].name,
                              records[i].subscribedChannel)]

\* ------------------------------------------------------------ responses
Json(status, docs) == [status |-> status, docs |-> docs, message |-> ""]
Message(status, text) == [status |-> status, docs |-> <<>>, message |-> text]

\* What a handler did: the collection it leaves, the store calls it made and
\* the responses it sent.
Did(coll, calls, resps) == [coll |-> coll, calls |-> calls, resps |-> resps]


\* --------------------------------------------------------- the handlers
\* const { name, subscribedChannel } = req.body: the field's value, <<v>>, or
\* undefined, <<>>, when the body has no such field.
Destructure(body, f) == IF f \in DOMAIN body THEN <<body[f]>> ELSE <<>>

\* !v: undefined and the empty text are falsy.
Not(v) == v = <<>> \/ v = <<"">>

\* app.get("/subscribers")
GetSubscribersHandler(coll, up) ==
    IF up
    THEN Did(coll, 1, <<Json(200, Find(coll))>>)
    ELSE Did(coll, 1, <<Message(500, StoreErrorMessage)>>)

\* new Subscriber({name, subscribedChannel}), await save(), and the 201 or,
\* from the catch, the 500; id is the identifier new Subscriber() draws.
CreateSubscriber(coll, name, subscribedChannel, up, id) ==
    LET newSubscriber == NewSubscriber(id, name, subscribedChannel)
    IN  IF up
        THEN Did(Save(coll, newSubscriber), 1, <<Json(201, <<newSubscriber>>)>>)
        ELSE Did(coll, 1, <<Message(500, StoreErrorMessage)>>)

\* What a document holds for a destructured field (nothing for undefined).
Text(v) == IF v = <<>> THEN "" ELSE v[1]

\* A handler that answers 201 without awaiting, or making, the save.
PostWithoutSave(coll, body, up, id) ==
    LET name == Destructure(body, "name")
        subscribedChannel == Destructure(body, "subscribedChannel")
    IN  IF Not(name) \/ Not(subscribedChannel)
        THEN Did(coll, 0, <<Message(400, RequiredMessage)>>)
        ELSE Did(coll, 1, <<Json(201, <<NewSubscriber(id, name[1],
                                                      subscribedChannel[1])>>)>>)

\* A handler that tests !name && !subscribedChannel.
PostRejectsOnlyBothMissing(coll, body, up, id) ==
    LET name == Destructure(body, "name")
        subscribedChannel == Destructure(body, "subscribedChannel")
    IN  IF Not(name) /\ Not(subscribedChannel)
        THEN Did(coll, 0, <<Message(400, RequiredMessage)>>)
        ELSE CreateSubscriber(coll, Text(name), Text(subscribedChannel), up, id)

\* A handler without the presence test.
PostWithoutValidation(coll, body, up, id) ==
    CreateSubscriber(coll, Text(Destructure(body, "name")),
                     Text(Destructure(body, "subscribedChannel")), up, id)

\* A handler that updates the subscriber of that name, if there is one,
\* instead of storing a new one (an upsert by name).
PostUpserts(coll, body, up, id) ==
    LET name == Destructure(body, "name")
        subscribedChannel == Destructure(body, "subscribedChannel")
        same == {i \in 1..Len(coll) : <<coll[i].name>> = name}
    IN  IF Not(name) \/ Not(subscribedChannel)
        THEN Did(coll, 0, <<Message(400, RequiredMessage)>>)
        ELSE IF same = {} \/ ~up
        THEN CreateSubscriber(coll, name[1], subscribedChannel[1], up, id)
        ELSE LET i == CHOOSE j \in same : TRUE
                 updated == [coll[i] EXCEPT !.subscribedChannel = subscribedChannel[1]]
             IN  Did([coll EXCEPT ![i] = updated], 1, <<Json(201, <<updated>>)>>)

\* A handler whose 400 branch lacks its return: it goes on to the save and
\* to a second response.
PostMissingReturn(coll, body, up, id) ==
    LET name == Destructure(body, "name")
        subscribedChannel == Destructure(body, "subscribedChannel")
        created == CreateSubscriber(coll, Text(name), Text(subscribedChannel), up, id)
    IN  IF Not(name) \/ Not(subscribedChannel)
        THEN Did(created.coll, created.calls,
                 <<Message(400, RequiredMessage)>> \o created.resps)
        ELSE created

\* A handler that refuses to write while the seeding script runs.
PostRefusedWhileSeeding(coll, body, up, id) ==
    LET name == Destructure(body, "name")
        subscribedChannel == Destructure(body, "subscribedChannel")
    IN  IF Not(name) \/ Not(subscribedChannel)
        THEN Did(coll, 0, <<Message(400, RequiredMessage)>>)
        ELSE IF Seeding
        THEN Did(coll, 0, <<Message(503, "Seeding in progress")>>)
        ELSE CreateSubscriber(coll, name[1], subscribedChannel[1], up, id)

\* app.post("/subscribers")
PostSubscribersHandler(coll, body, up, id) ==
    LET name == Destructure(body, "name")
        subscribedChannel == Destructure(body, "subscribedChannel")
    IN  IF Not(name) \/ Not(subscribedChannel)
        THEN Did(coll, 0, <<Message(400, RequiredMessage)>>)
        ELSE CreateSubscriber(coll, name[1], subscribedChannel[1], up, id)

\* app.get("/subscribers/name")
GetSubscribersNameHandler(coll, up) ==
    IF up
    THEN Did(coll, 1, <<Json(200, Select(Find(coll)))>>)
    ELSE Did(coll, 1, <<Message(500, StoreErrorMessage)>>)

\* A handler whose catch answers 500 with the error's text, as the other
\* handlers' do.
GetByIdCatch500(coll, id, up) ==
    IF ~id.wf \/ ~up
    THEN Did(coll, 1, <<Message(500, StoreErrorMessage)>>)
    ELSE LET subscriber == FindById(coll, id)
         IN  IF subscriber = <<>>
             THEN Did(coll, 1, <<Message(400, NotFoundMessage)>>)
             ELSE Did(coll, 1, <<Json(200, subscriber)>>)

\* A handler that calls findByIdAndDelete for findById.
GetByIdAndDelete(coll, id, up) ==
    IF ~id.wf \/ ~up
    THEN Did(coll, 1, <<Message(400, NotFoundMessage)>>)
    ELSE LET subscriber == FindById(coll, id)
         IN  IF subscriber = <<>>
             THEN Did(coll, 1, <<Message(400, NotFoundMessage)>>)
             ELSE Did(SelectSeq(coll, LAMBDA d : d._id # id.n), 1,
                      <<Json(200, subscriber)>>)

\* app.get("/subscribers/:id"): findById throws on an id it cannot cast and
\* on a store failure, and the catch sends what the not-found branch sends.
GetSubscriberByIdHandler(coll, id, up) ==
    IF ~id.wf \/ ~up
    THEN Did(coll, 1, <<Message(400, NotFoundMessage)>>)
    ELSE LET subscriber == FindById(coll, id)
         IN  IF subscriber = <<>>
             THEN Did(coll, 1, <<Message(400, NotFoundMessage)>>)
             ELSE Did(coll, 1, <<Json(200, subscriber)>>)

\* ---------------------------------------------------------------- steps
NoList == [valid |-> FALSE, repeated |-> FALSE, docs |-> <<>>]

Step(op, body, id, up, did) ==
    [op |-> op, body |-> body, id |-> id, up |-> up,
     calls |-> did.calls, resps |-> did.resps]

Init ==
    /\ subscribers = <<>>
    /\ nextId = 1
    /\ data \in SeedDatasets
    /\ seedPc = "idle"
    /\ seedTrace = <<>>
    /\ seedDirty = FALSE
    /\ last = Step("start", EmptyBody, MalformedId, TRUE, Did(<<>>, 0, <<>>))
    /\ posted = {}
    /\ clobbered = {}
    /\ lastList = NoList

GetSubscribers ==
    \E up \in BOOLEAN :
        LET did == GetSubscribersHandler(subscribers, up)
        IN  /\ subscribers' = did.coll
            /\ last' = Step("GET /subscribers", EmptyBody, MalformedId, up, did)
            /\ lastList' = IF did.resps[1].status # 200 THEN lastList
                           ELSE IF lastList.valid
                                THEN [lastList EXCEPT !.repeated = TRUE]
                                ELSE [valid |-> TRUE, repeated |-> FALSE,
                                      docs |-> did.resps[1].docs]
            /\ UNCHANGED <<nextId, data, seedPc, seedTrace, seedDirty,
                           posted, clobbered>>

PostSubscribers ==
    \E body \in Bodies, up \in BOOLEAN :
        LET did == PostSubscribersHandler(subscribers, body, up, nextId)
            created == did.resps[1].status = 201
        IN  /\ nextId <= MaxIds
            /\ subscribers' = did.coll
            /\ nextId' = IF created THEN nextId + 1 ELSE nextId
            /\ last' = Step("POST /subscribers", body, MalformedId, up, did)
            /\ posted' = IF created
                         THEN posted \cup
                                  {NewSubscriber(did.resps[1].docs[1]._id,
                                                 Destructure(body, "name"),
                                                 Destructure(body, "subscribedChannel"))}
                         ELSE posted
            /\ seedDirty' = (seedDirty \/ created)
            /\ lastList' = IF created THEN NoList ELSE lastList
            /\ UNCHANGED <<data, seedPc, seedTrace, clobbered>>

GetSubscribersName ==
    \E up \in BOOLEAN :
        LET did == GetSubscribersNameHandler(subscribers, up)
        IN  /\ subscribers' = did.coll
            /\ last' = Step("GET /subscribers/name", EmptyBody, MalformedId, up, did)
            /\ UNCHANGED <<nextId, data, seedPc, seedTrace, seedDirty,
                           posted, clobbered, lastList>>

GetSubscriberById ==
    \E id \in IdParams, up \in BOOLEAN :
        LET did == GetSubscriberByIdHandler(subscribers, id, up)
        IN  /\ subscribers' = did.coll
            /\ last' = Step("GET /subscribers/:id", EmptyBody, id, up, did)
            /\ UNCHANGED <<nextId, data, seedPc, seedTrace, seedDirty,
                           posted, clobbered, lastList>>

\* ------------------------------------------------- the seeding script
SeedStep(op, up, calls) ==
    Step(op, EmptyBody, MalformedId, up, Did(<<>>, calls, <<>>))

\* node createDatabase.js: connect, and refreshAll() is called.
RefreshAllStart ==
    /\ seedPc \in {"idle", "done", "failed"}
    /\ seedPc' = "started"
    /\ seedTrace' = <<>>
    /\ seedDirty' = FALSE
    /\ last' = SeedStep("refreshAll", TRUE, 0)
    /\ UNCHANGED <<subscribers, nextId, data, posted, clobbered, lastList>>

\* await subscriberModel.deleteMany({}); a rejection ends the script.
RefreshAllDeleteMany ==
    \E up \in BOOLEAN :
        /\ seedPc = "started"
        /\ subscribers' = IF up THEN DeleteMany(subscribers) ELSE subscribers
        /\ seedPc' = IF up THEN "cleared" ELSE "failed"
        /\ seedTrace' = IF up THEN Append(seedTrace, "deleteMany") ELSE seedTrace
        /\ posted' = IF up THEN {} ELSE posted
        /\ clobbered' = IF up THEN clobbered \cup {d._id : d \in posted} ELSE clobbered
        /\ last' = SeedStep("deleteMany", up, 1)
        /\ lastList' = NoList
        /\ UNCHANGED <<nextId, data, seedDirty>>

\* await subscriberModel.insertMany(data); a rejection ends the script with
\* the records before the failing one inserted (k of them).
RefreshAllInsertMany ==
    \E up \in BOOLEAN, k \in 0..Len(data) :
        LET n == IF up THEN Len(data) ELSE k
        IN  /\ seedPc = "cleared"
            /\ ~up => k < Len(data)
            /\ up => k = 0
            /\ nextId + n - 1 <= MaxIds
            /\ subscribers' = InsertMany(subscribers, SubSeq(data, 1, n), nextId)
            /\ nextId' = nextId + n
            /\ seedPc' = IF up THEN "inserted" ELSE "failed"
            /\ seedTrace' = IF up THEN Append(seedTrace, "insertMany") ELSE seedTrace
            /\ last' = SeedStep("insertMany", up, 1)
            /\ lastList' = NoList
            /\ UNCHANGED <<data, seedDirty, posted, clobbered>>

\* await mongoose.disconnect(): the script is over.
RefreshAllDisconnect ==
    /\ seedPc = "inserted"
    /\ seedPc' = "done"
    /\ seedTrace' = Append(seedTrace, "disconnect")
    /\ last' = SeedStep("disconnect", TRUE, 0)
    /\ UNCHANGED <<subscribers, nextId, data, seedDirty, posted,
                   clobbered, lastList>>

Next ==
    \/ GetSubscribers
    \/ PostSubscribers
    \/ GetSubscribersName
    \/ GetSubscriberById
    \/ RefreshAllStart
    \/ RefreshAllDeleteMany
    \/ RefreshAllInsertMany
    \/ RefreshAllDisconnect

Spec == Init /\ [][Next]_vars

\* ------------------------------------------------------------- claims
GetAll == "GET /subscribers"
GetNames == "GET /subscribers/name"
GetById == "GET /subscribers/:id"
Post == "POST /subscribers"
HttpOps == {GetAll, GetNames, GetById, Post}

\* The entries of a sequence, and the ids of a sequence of documents.
Range(s) == {s[i] : i \in 1..Len(s)}
Ids(coll) == {coll[i]._id : i \in 1..Len(coll)}

\* The (name, subscribedChannel) pair of a document or record.
Pair(d) == [name |-> d.name, subscribedChannel |-> d.subscribedChannel]
\* How many entries of a sequence carry the pair p.
Count(p, s) == Cardinality({i \in 1..Len(s) : Pair(s[i]) = p})
\* Two sequences carry the same pairs, each as often.
SamePairs(s, t) ==
    \A p \in {Pair(s[i]) : i \in 1..Len(s)} \cup {Pair(t[i]) : i \in 1..Len(t)} :
        Count(p, s) = Count(p, t)

\* The body omits name or subscribedChannel.
Omits(body) == "name" \notin DOMAIN body \/ "subscribedChannel" \notin DOMAIN body
\* The body gives both fields, neither the empty text.
GivesBoth(body) ==
    /\ ~Omits(body)
    /\ body.name # ""
    /\ body.subscribedChannel # ""

\* C1: a GET /subscribers/{id} served by the store, for the id a POST returned
\* with 201 (and no deleteMany of the seeding script since), returns 200 and
\* one document, whose name and subscribedChannel are the posted ones.
C1_PostThenGetById ==
    \A p \in posted :
        (last.op = GetById /\ last.up /\ last.id.wf /\ last.id.n = p._id)
            => /\ Len(last.resps) = 1
               /\ last.resps[1].status = 200
               /\ Len(last.resps[1].docs) = 1
               /\ last.resps[1].docs[1]._id = p._id
               /\ <<last.resps[1].docs[1].name>> = p.name
               /\ <<last.resps[1].docs[1].subscribedChannel>> = p.subscribedChannel

\* A posted subscriber is read back by id while another one is stored too.
C1_Witness ==
    /\ last.op = GetById
    /\ last.up
    /\ \E p \in posted : last.id.wf /\ last.id.n = p._id /\ p.name = <<"b">>
    /\ last.resps[1].status = 200
    /\ Len(subscribers) >= 2

\* C2: a POST /subscribers whose body omits name, subscribedChannel or both
\* is answered 400 with the fixed message, once, and leaves the collection as
\* it was, whether or not the store is reachable.
C2_MissingFieldRejected ==
    [][(last'.op = Post /\ Omits(last'.body))
          => /\ last'.resps = <<Message(400, RequiredMessage)>>
             /\ subscribers' = subscribers]_vars

\* A POST without name, while the store is failing and holds a subscriber.
C2_Witness ==
    /\ last.op = Post
    /\ "name" \notin DOMAIN last.body
    /\ "subscribedChannel" \in DOMAIN last.body
    /\ ~last.up
    /\ last.resps[1].status = 400
    /\ Len(subscribers) >= 1

\* The documents of the collection that the :id parameter of the last request
\* names.
Hit == {d \in Range(subscribers) : last.id.wf /\ d._id = last.id.n}

\* C3: GET /subscribers/{id} answers 400 {message: "Subscriber not found"}
\* when the id is malformed, when no subscriber has it and when the store call
\* fails; it answers 200 with the subscriber only when the collection holds a
\* subscriber with that id; it answers nothing else (no 404, no 500).
C3_GetByIdStatus ==
    last.op = GetById
        => /\ Len(last.resps) = 1
           /\ last.resps[1].status \in {200, 400}
           /\ (~last.id.wf \/ Hit = {} \/ ~last.up)
                  => last.resps[1] = Message(400, NotFoundMessage)
           /\ last.resps[1].status = 200
                  => /\ Hit # {}
                     /\ Len(last.resps[1].docs) = 1
                     /\ last.resps[1].docs[1] \in Hit

\* The store call fails for the id of a stored subscriber: 400, not 500.
C3_Witness ==
    /\ last.op = GetById
    /\ ~last.up
    /\ Hit # {}
    /\ last.resps[1] = Message(400, NotFoundMessage)

\* C4: when the seeding script has run to completion and no POST returned 201
\* since it was launched, the collection holds the seed dataset's pairs, one
\* document per seed record, GET /subscribers returns those documents, and the
\* script's steps were deleteMany, insertMany, disconnect, in that order.
C4_SeedingResult ==
    (seedPc = "done" /\ ~seedDirty)
        => /\ Len(subscribers) = Len(data)
           /\ SamePairs(subscribers, data)
           /\ seedTrace = <<"deleteMany", "insertMany", "disconnect">>
           /\ (last.op = GetAll /\ last.up)
                  => /\ last.resps[1].status = 200
                     /\ Len(last.resps[1].docs) = Len(data)
                     /\ SamePairs(last.resps[1].docs, data)
                     /\ Range(last.resps[1].docs) = Range(subscribers)

\* The script cleared a posted subscriber, seeded two records and is over;
\* GET /subscribers has been served since.
C4_Witness ==
    /\ seedPc = "done"
    /\ ~seedDirty
    /\ clobbered # {}
    /\ Len(data) = 2
    /\ last.op = GetAll
    /\ last.up

\* Every stored subscriber has a name and a subscribedChannel, neither empty,
\* and an id no other stored subscriber has.
ValidCollection ==
    /\ \A i \in 1..Len(subscribers) :
          /\ subscribers[i].name # ""
          /\ subscribers[i].subscribedChannel # ""
    /\ \A i, j \in 1..Len(subscribers) :
          subscribers[i]._id = subscribers[j]._id => i = j

\* A step leaves every document that stays stored as it was, and gives a
\* document that joins the collection an id never handed out before.
IdsKept ==
    \A i \in 1..Len(subscribers') :
        \/ subscribers'[i] \in Range(subscribers)
        \/ /\ subscribers'[i]._id \notin Ids(subscribers)
           /\ subscribers'[i]._id >= nextId
           /\ subscribers'[i]._id < nextId'

\* C5: in every reachable state every stored subscriber has a non-empty name
\* and a non-empty subscribedChannel and no two share an id; a stored
\* document's id (and the document with it) never changes, and a new
\* document's id was never handed out before.
C5_ValidSubscribers == []ValidCollection /\ [][IdsKept]_vars

\* A posted and a seeded subscriber are stored side by side.
C5_Witness ==
    /\ Len(subscribers) >= 2
    /\ \E d \in Range(subscribers) : d._id \in {p._id : p \in posted}
    /\ \E d \in Range(subscribers) : d._id \notin {p._id : p \in posted}
    /\ seedPc = "done"

\* C6: a GET /subscribers that follows an earlier one with no successful POST
\* and no seeding step in between returns the same documents; no GET handler
\* changes the collection.
C6_GetIsIdempotent ==
    /\ [](((last.op = GetAll /\ last.up /\ lastList.valid)
             => /\ last.resps[1].status = 200
                /\ Range(last.resps[1].docs) = Range(lastList.docs)
                /\ Len(last.resps[1].docs) = Len(lastList.docs)))
    /\ [][last'.op \in {GetAll, GetNames, GetById}
             => subscribers' = subscribers]_vars

\* GET /subscribers is served a second time, other GETs and a rejected POST
\* having run since the first.
C6_Witness ==
    /\ last.op = GetAll
    /\ last.up
    /\ lastList.valid
    /\ lastList.repeated
    /\ Len(subscribers) >= 2

\* C7: GET /subscribers/name returns one object per stored subscriber, each
\* with the fields name and subscribedChannel and no other, and their pairs
\* are those of the documents GET /subscribers returns in that state.
C7_NamesProjection ==
    (last.op = GetNames /\ last.up)
        => /\ Len(last.resps) = 1
           /\ last.resps[1].status = 200
           /\ Len(last.resps[1].docs) = Len(subscribers)
           /\ \A i \in 1..Len(last.resps[1].docs) :
                  DOMAIN last.resps[1].docs[i] = {"name", "subscribedChannel"}
           /\ SamePairs(last.resps[1].docs,
                        GetSubscribersHandler(subscribers, TRUE).resps[1].docs)

\* The names of two subscribers with the same pair and one with another.
C7_Witness ==
    /\ last.op = GetNames
    /\ last.up
    /\ Len(subscribers) = 3
    /\ \E i, j \in 1..3 : i # j /\ Pair(subscribers[i]) = Pair(subscribers[j])
    /\ \E i, j \in 1..3 : Pair(subscribers[i]) # Pair(subscribers[j])

\* The collection starts with the documents of coll, unchanged and in order.
Extends(coll) ==
    /\ Len(subscribers') >= Len(coll)
    /\ SubSeq(subscribers', 1, Len(coll)) = coll

\* C8: a request leaves every stored subscriber stored and unchanged; the
\* collection grows by exactly one document in a POST /subscribers that
\* returns 201 and by none in any other request; a step that removes a
\* document is the seeding script's deleteMany.
C8_OnlyGrowsByPost ==
    [][/\ last'.op \in HttpOps
            => /\ Extends(subscribers)
               /\ Len(subscribers') =
                      Len(subscribers) +
                          (IF last'.op = Post /\ last'.resps[1].status = 201
                           THEN 1 ELSE 0)
       /\ (\E d \in Range(subscribers) : d \notin Range(subscribers'))
            => last'.op = "deleteMany"]_vars

\* A POST returned 201 with two subscribers stored before it.
C8_Witness ==
    /\ last.op = Post
    /\ last.resps[1].status = 201
    /\ Len(subscribers) = 3
    /\ seedPc = "idle"

\* C9 as stated: every request makes exactly one store call and sends exactly
\* one response.
C9_OneCallPerRequest ==
    last.op \in HttpOps => (last.calls = 1 /\ Len(last.resps) = 1)

\* The status each handler maps its store call's outcome to.
Mapped ==
    CASE last.op = GetAll -> IF last.up THEN 200 ELSE 500
      [] last.op = GetNames -> IF last.up THEN 200 ELSE 500
      [] last.op = GetById -> IF last.up /\ Hit # {} THEN 200 ELSE 400
      [] last.op = Post -> IF last.up THEN 201 ELSE 500

\* C9 as amended: a POST whose body lacks name or subscribedChannel (omitted
\* or empty) makes no store call and is answered 400; every other request
\* makes exactly one store call and is answered with the status mapped from
\* its outcome; every request is answered exactly once.
C9_AtMostOneCall ==
    last.op \in HttpOps
        => /\ Len(last.resps) = 1
           /\ IF last.op = Post /\ ~GivesBoth(last.body)
              THEN last.calls = 0 /\ last.resps[1].status = 400
              ELSE last.calls = 1 /\ last.resps[1].status = Mapped

\* A POST without subscribedChannel was answered without a store call.
C9_Witness ==
    /\ last.op = Post
    /\ "subscribedChannel" \notin DOMAIN last.body
    /\ last.calls = 0
    /\ Len(last.resps) = 1

=============================================================================
